---- MODULE Spec2Model ----
(***************************************************************************)
(* Model of the graph-comparison engine of src/evaluate/graph_evaluator.py *)
(* (all_topological_sorts, match_node, t_eval_graph, t_eval_plan,          *)
(* t_eval_nodes).  The functions are pure; each is an operator computed    *)
(* the way the code computes it, and one action per entry point applies it *)
(* to inputs drawn from bounded sets.                                      *)
(*                                                                         *)
(* Conventions.  Indices are Python's: 0-based (At(s, i) reads s[i]).      *)
(* Similarities and weights are integers in units of 1e-4.  Scores are     *)
(* exact fractions <<num, den>> in lowest terms.  A function that can     *)
(* raise returns an outcome record with st = "ok" or st = "raise".  The    *)
(* tie-break of networkx' max_weight_matching is not fixed by the code, so *)
(* every operator downstream of it returns the SET of possible outcomes.   *)
(***************************************************************************)
EXTENDS Integers, Sequences, FiniteSets, TLC

VARIABLES pred, gt, emb, portUp, pc, op, out

vars == <<pred, gt, emb, portUp, pc, op, out>>

(***************************** bounds *************************************)
\* Largest number of interior nodes of an enumerated (short) input graph.
MaxInterior == 2
\* Largest number of edges of an input graph.
MaxEdges == 2

(************************* program constants ******************************)
\* graph_evaluator.py:58  len(graph["nodes"]) >= 12 takes the bypass.
BypassThreshold == 12
\* graph_evaluator.py:92  filtered_sorts[:20]
TopoCap == 20
\* graph_evaluator.py:199 match_threshold=0.6, in units of 1e-4.
MatchThreshold == 6000
\* graph_evaluator.py:275 position bias 1e-4 * abs(p_idx - g_idx), in units of 1e-4.
PositionPenalty == 1

START == "START"
END == "END"
Sentinels == {START, END}
\* Step descriptions: graphs carry the first two, label lists may carry all four.
InteriorLabels == {"a", "b"}
ReferenceLabels == {"a", "c", "d"}
\* Labels of the lists whose similarities are graded: the first set is used by
\* the candidate, the second by the reference; "c" is common to both.
GradedCandidateLabels == {"a", "b", "e", "c"}
GradedReferenceLabels == {"c", "d", "f"}
Labels == Sentinels \cup InteriorLabels \cup ReferenceLabels
            \cup GradedCandidateLabels \cup GradedReferenceLabels

(****************************** helpers ***********************************)
At(s, i) == s[i + 1]

Indices(s) == 0 .. (Len(s) - 1)

Min(S) == CHOOSE x \in S : \A y \in S : x <= y

Max(S) == CHOOSE x \in S : \A y \in S : y <= x

Abs(x) == IF x < 0 THEN -x ELSE x

RECURSIVE GCD(_, _)
GCD(a, b) == IF b = 0 THEN a ELSE GCD(b, a % b)

\* The exact value n/d (d > 0, n >= 0) in lowest terms.
Frac(n, d) == LET g == GCD(n, d) IN <<n \div g, d \div g>>

Zero == <<0, 1>>
One == <<1, 1>>

FracLess(x, y) == x[1] * y[2] < y[1] * x[2]

FracLeq(x, y) == x[1] * y[2] <= y[1] * x[2]

\* 2*p*r/(p+r) for fractions p, r with p + r > 0.
Harmonic(p, r) == Frac(2 * p[1] * r[1], p[1] * r[2] + r[1] * p[2])

\* The subsequence of s whose elements satisfy membership in keep.
RECURSIVE FilterOut(_, _)
FilterOut(s, drop) ==
  IF s = <<>> THEN <<>>
  ELSE IF Head(s) \in drop THEN FilterOut(Tail(s), drop)
       ELSE <<Head(s)>> \o FilterOut(Tail(s), drop)

\* The elements of a finite set of integers in ascending order.
RECURSIVE Ascending(_)
Ascending(S) == IF S = {} THEN <<>> ELSE <<Min(S)>> \o Ascending(S \ {Min(S)})

Range(s) == {s[i] : i \in DOMAIN s}

(************************** outcome records *******************************)
Raise(exc) == [st |-> "raise", exc |-> exc]

Score(p, r, f) == [precision |-> p, recall |-> r, f1_score |-> f]

ZeroScore == Score(Zero, Zero, Zero)

OneScore == Score(One, One, One)

\* calls counts the sentence_model.encode calls made before returning or raising.
Returned(score, calls) == [st |-> "ok", score |-> score, calls |-> calls]

Raised(exc, calls) == [st |-> "raise", exc |-> exc, calls |-> calls]

(************************** embedding port ********************************)
\* The port is deterministic: encode maps a label to a fixed non-zero vector.
\* Vectors are small integer pairs; their pairwise cosines are 1, 0.8944, 0.7071,
\* 0.4472, 0.3162, 0 and -0.7071.
Vectors == {<<1, 0>>, <<0, 1>>, <<1, 2>>, <<-1, 1>>}

Dot(v, w) == v[1] * w[1] + v[2] * w[2]

\* sqrt(n) in units of 1e-4, for the products of squared norms that occur.
Sqrt1e4(n) ==
  CASE n = 1 -> 10000 [] n = 2 -> 14142 [] n = 4 -> 20000
    [] n = 5 -> 22360 [] n = 10 -> 31622 [] n = 25 -> 50000
    [] n = 85 -> 92195 [] n = 145 -> 120415 [] n = 221 -> 148660
    [] n = 289 -> 170000

\* util.cos_sim(v, w), then np.maximum(., 0): the clamped cosine, in 1e-4.
cos_sim(v, w) ==
  LET d == Dot(v, w)
  IN IF d <= 0 THEN 0 ELSE (d * 100000000) \div Sqrt1e4(Dot(v, v) * Dot(w, w))

(****************************** match_node ********************************)
\* Mutant: the exact-match pass binds the last unused identical reference label.
RECURSIVE ExactPass_last_hit(_, _, _, _, _)
ExactPass_last_hit(pred_nodes, gt_nodes, p_idx, m, used_gt) ==
  IF p_idx = Len(pred_nodes) THEN [m |-> m, used_gt |-> used_gt]
  ELSE LET hits == {g \in Indices(gt_nodes) :
                      g \notin used_gt /\ At(gt_nodes, g) = At(pred_nodes, p_idx)}
       IN IF hits = {}
          THEN ExactPass_last_hit(pred_nodes, gt_nodes, p_idx + 1, m, used_gt)
          ELSE ExactPass_last_hit(pred_nodes, gt_nodes, p_idx + 1,
                                  m \cup {<<p_idx, Max(hits)>>}, used_gt \cup {Max(hits)})

\* Mutant: the exact-match pass does not skip reference labels already used.
RECURSIVE ExactPass_no_used(_, _, _, _, _)
ExactPass_no_used(pred_nodes, gt_nodes, p_idx, m, used_gt) ==
  IF p_idx = Len(pred_nodes) THEN [m |-> m, used_gt |-> used_gt]
  ELSE LET hits == {g \in Indices(gt_nodes) : At(gt_nodes, g) = At(pred_nodes, p_idx)}
       IN IF hits = {}
          THEN ExactPass_no_used(pred_nodes, gt_nodes, p_idx + 1, m, used_gt)
          ELSE ExactPass_no_used(pred_nodes, gt_nodes, p_idx + 1,
                                 m \cup {<<p_idx, Min(hits)>>}, used_gt \cup {Min(hits)})

\* Phase 1, lines 240-247: candidates in index order, each bound to the first
\* unused reference index with identical text.  m is a set of <<p, g>> pairs.
\* Mutant: the exact-match pass compares a candidate label only with the
\* reference label at its own index.
RECURSIVE ExactPass_same_index(_, _, _, _, _)
ExactPass_same_index(pred_nodes, gt_nodes, p_idx, m, used_gt) ==
  IF p_idx = Len(pred_nodes) THEN [m |-> m, used_gt |-> used_gt]
  ELSE IF p_idx \in Indices(gt_nodes) /\ At(gt_nodes, p_idx) = At(pred_nodes, p_idx)
       THEN ExactPass_same_index(pred_nodes, gt_nodes, p_idx + 1,
                                 m \cup {<<p_idx, p_idx>>}, used_gt \cup {p_idx})
       ELSE ExactPass_same_index(pred_nodes, gt_nodes, p_idx + 1, m, used_gt)

RECURSIVE ExactPass(_, _, _, _, _)
ExactPass(pred_nodes, gt_nodes, p_idx, m, used_gt) ==
  IF p_idx = Len(pred_nodes) THEN [m |-> m, used_gt |-> used_gt]
  ELSE LET hits == {g \in Indices(gt_nodes) :
                      g \notin used_gt /\ At(gt_nodes, g) = At(pred_nodes, p_idx)}
       IN IF hits = {}
          THEN ExactPass(pred_nodes, gt_nodes, p_idx + 1, m, used_gt)
          ELSE ExactPass(pred_nodes, gt_nodes, p_idx + 1,
                         m \cup {<<p_idx, Min(hits)>>}, used_gt \cup {Min(hits)})

\* All matchings of the bipartite edge set E that use candidates from ps.
RECURSIVE Matchings(_, _)
Matchings(ps, E) ==
  IF ps = {} THEN {{}}
  ELSE LET p == Min(ps)
           rest == Matchings(ps \ {p}, E)
       IN rest \cup UNION { { mm \cup {e} :
                                e \in {e \in E : e[1] = p /\ \A f \in mm : f[2] # e[2]} }
                            : mm \in rest }

RECURSIVE SumWeights(_, _)
SumWeights(mm, w) ==
  IF mm = {} THEN 0
  ELSE LET e == CHOOSE e \in mm : TRUE IN w[e] + SumWeights(mm \ {e}, w)

\* nx.max_weight_matching(G), line 279: any matching of maximum total weight.
\* Mutant: only the single heaviest edge is kept.
max_weight_matching_heaviest_edge(E, w) ==
  IF E = {} THEN {{}}
  ELSE { {x} : x \in {y \in E : \A z \in E : w[z] <= w[y]} }

max_weight_matching(E, w) ==
  LET all == Matchings({e[1] : e \in E}, E)
      best == Max({SumWeights(mm, w) : mm \in all})
  IN {mm \in all : SumWeights(mm, w) = best}

\* Lines 288-292: the correspondence as a total function on candidate indices.
Realize(pred_nodes, m) ==
  [i \in Indices(pred_nodes) |->
     IF \E e \in m : e[1] = i THEN (CHOOSE e \in m : e[1] = i)[2] ELSE -1]

\* Mutant: the similarity pass keeps every pair with a positive similarity.
SimEdges_no_threshold(pred_nodes, gt_nodes, e, remain_pred, remain_gt, threshold) ==
  {pg \in remain_pred \X remain_gt :
     cos_sim(e[At(pred_nodes, pg[1])], e[At(gt_nodes, pg[2])]) > 0}

\* The bipartite edges of the similarity pass, lines 270-276.
\* Mutant: only a candidate and a reference at the same index are compared.
SimEdges_same_index(pred_nodes, gt_nodes, e, remain_pred, remain_gt, threshold) ==
  {pg \in remain_pred \X remain_gt :
     /\ pg[1] = pg[2]
     /\ cos_sim(e[At(pred_nodes, pg[1])], e[At(gt_nodes, pg[2])]) >= threshold}

SimEdges(pred_nodes, gt_nodes, e, remain_pred, remain_gt, threshold) ==
  {pg \in remain_pred \X remain_gt :
     cos_sim(e[At(pred_nodes, pg[1])], e[At(gt_nodes, pg[2])]) >= threshold}

\* Mutant: the weight is the bare similarity, without the position bias.
SimWeights_no_penalty(pred_nodes, gt_nodes, e, E) ==
  [pg \in E |-> cos_sim(e[At(pred_nodes, pg[1])], e[At(gt_nodes, pg[2])])]

SimWeights(pred_nodes, gt_nodes, e, E) ==
  [pg \in E |-> cos_sim(e[At(pred_nodes, pg[1])], e[At(gt_nodes, pg[2])])
                  - PositionPenalty * Abs(pg[1] - pg[2])]

\* Mutant: the similarity pass offers every reference index, used or not.
match_node_reuse(pred_nodes, gt_nodes, e, up, threshold) ==
  LET ph1 == ExactPass(pred_nodes, gt_nodes, 0, {}, {})
      remain_pred == {i \in Indices(pred_nodes) : \A x \in ph1.m : x[1] # i}
      remain_gt == Indices(gt_nodes)
      E == SimEdges(pred_nodes, gt_nodes, e, remain_pred, remain_gt, threshold)
  IN IF Cardinality(ph1.m) = Len(pred_nodes) /\ Cardinality(ph1.m) = Len(gt_nodes)
     THEN {[st |-> "ok", map |-> Realize(pred_nodes, ph1.m), calls |-> 0]}
     ELSE IF remain_pred # {} /\ remain_gt # {}
          THEN IF ~up
               THEN {[st |-> "raise", exc |-> "EmbeddingError", calls |-> 1]}
               ELSE {[st |-> "ok", map |-> Realize(pred_nodes, ph1.m \cup mwm), calls |-> 2]
                       : mwm \in max_weight_matching(E, SimWeights(pred_nodes, gt_nodes, e, E))}
          ELSE {[st |-> "ok", map |-> Realize(pred_nodes, ph1.m), calls |-> 0]}

\* match_node, lines 232-294.  up = FALSE makes sentence_model.encode raise.
\* Outcomes: [st "ok", map, calls] or [st "raise", exc, calls].
match_node(pred_nodes, gt_nodes, e, up, threshold) ==
  LET ph1 == ExactPass(pred_nodes, gt_nodes, 0, {}, {})
      remain_pred == {i \in Indices(pred_nodes) : \A x \in ph1.m : x[1] # i}
      remain_gt == Indices(gt_nodes) \ ph1.used_gt
      E == SimEdges(pred_nodes, gt_nodes, e, remain_pred, remain_gt, threshold)
  IN IF Cardinality(ph1.m) = Len(pred_nodes) /\ Cardinality(ph1.m) = Len(gt_nodes)
     THEN {[st |-> "ok", map |-> Realize(pred_nodes, ph1.m), calls |-> 0]}
     ELSE IF remain_pred # {} /\ remain_gt # {}
          THEN IF ~up
               THEN {[st |-> "raise", exc |-> "EmbeddingError", calls |-> 1]}
               ELSE {[st |-> "ok", map |-> Realize(pred_nodes, ph1.m \cup mwm), calls |-> 2]
                       : mwm \in max_weight_matching(E, SimWeights(pred_nodes, gt_nodes, e, E))}
          ELSE {[st |-> "ok", map |-> Realize(pred_nodes, ph1.m), calls |-> 0]}

(************************ all_topological_sorts ****************************)
\* The nodes of the networkx graph in insertion order: range(len(nodes)) (line
\* 72), then every endpoint add_edges_from meets that is not yet a node (line 77).
RECURSIVE ExtraNodes(_, _, _)
ExtraNodes(edges, n, seen) ==
  IF edges = <<>> THEN <<>>
  ELSE LET u == Head(edges)[1]
           v == Head(edges)[2]
           nu == IF u \in 0 .. (n - 1) \/ u \in seen THEN <<>> ELSE <<u>>
           nv == IF v \in 0 .. (n - 1) \/ v \in seen \/ v = u THEN <<>> ELSE <<v>>
       IN nu \o nv \o ExtraNodes(Tail(edges), n, seen \cup {u, v})

GraphNodes(g) ==
  [i \in 1 .. Len(g.nodes) |-> i - 1] \o ExtraNodes(g.edges, Len(g.nodes), {})

\* G.out_edges(q): the successors of q in the order their edges were first
\* added; nx.DiGraph keeps a repeated edge once.
RECURSIVE Successors(_, _, _)
Successors(edges, q, seen) ==
  IF edges = <<>> THEN <<>>
  ELSE LET v == Head(edges)[2]
       IN IF Head(edges)[1] = q /\ v \notin seen
          THEN <<v>> \o Successors(Tail(edges), q, seen \cup {v})
          ELSE Successors(Tail(edges), q, seen)

OutEdges(edges, q) == Successors(edges, q, {})

InDegree(edges, v) == Cardinality({e \in Range(edges) : e[2] = v})

\* "erase all edges (q, x)": decrement the count of each successor in turn and
\* append it to D when its count reaches zero.
RECURSIVE Erase(_, _, _)
Erase(succ, count, D) ==
  IF succ = <<>> THEN [count |-> count, D |-> D]
  ELSE LET j == Head(succ)
           c == [count EXCEPT ![j] = @ - 1]
       IN Erase(Tail(succ), c, IF c[j] = 0 THEN Append(D, j) ELSE D)

\* D after r clean-ups at one position: each clean-up does D.appendleft(q) on the
\* deque that q was popped from on the right, i.e. rotates D right by one.
RotateRight(D, r) ==
  [i \in 1 .. Len(D) |-> D[((i - 1 - r + Len(D)) % Len(D)) + 1]]

\* nx.all_topological_sorts(G), consumed by list() at line 81: the sorts in the
\* order the generator yields them, at most `want` of them, or raised = TRUE when
\* the generator meets an empty D before the sort is complete (NetworkXUnfeasible).
RECURSIVE TopoFrom(_, _, _, _, _, _)
RECURSIVE TopoTry(_, _, _, _, _, _, _, _)
TopoFrom(edges, size, D, count, current_sort, want) ==
  IF Len(current_sort) = size THEN [raised |-> FALSE, sorts |-> <<current_sort>>]
  ELSE IF D = <<>> THEN [raised |-> TRUE, sorts |-> <<>>]
  ELSE TopoTry(edges, size, D, count, current_sort, 0, <<>>, want)

TopoTry(edges, size, D, count, current_sort, r, acc, want) ==
  IF r = Len(D) \/ Len(acc) >= want THEN [raised |-> FALSE, sorts |-> acc]
  ELSE LET Dr == RotateRight(D, r)
           q == Dr[Len(Dr)]
           er == Erase(OutEdges(edges, q), count, SubSeq(Dr, 1, Len(Dr) - 1))
           sub == TopoFrom(edges, size, er.D, er.count, Append(current_sort, q),
                           want - Len(acc))
       IN IF sub.raised THEN sub
          ELSE TopoTry(edges, size, D, count, current_sort, r + 1, acc \o sub.sorts, want)

nx_all_topological_sorts(g, want) ==
  LET V == GraphNodes(g)
      count == [v \in Range(V) |-> InDegree(g.edges, v)]
      D == FilterOut(V, {v \in Range(V) : count[v] # 0})
  IN TopoFrom(g.edges, Len(V), D, count, <<>>, want)

\* original_nodes[i], line 88: a list index counts from the end when negative
\* and raises IndexError outside -len .. len - 1.
Indexable(nodes, i) == -Len(nodes) <= i /\ i < Len(nodes)

Subscript(nodes, i) == IF i < 0 THEN At(nodes, Len(nodes) + i) ELSE At(nodes, i)

\* Line 88: index -> label, sentinel labels filtered.
FilteredSort(nodes, sort) ==
  FilterOut([i \in 1 .. Len(sort) |-> Subscript(nodes, sort[i])], Sentinels)

\* Mutant: the node-count test comes after the enumeration, so the graph is
\* built and sorted whatever its size.
all_topological_sorts_late_bypass(g) ==
  LET r == nx_all_topological_sorts(g, TopoCap)
  IN IF r.raised THEN Raise("NetworkXUnfeasible")
     ELSE IF \E v \in Range(GraphNodes(g)) : ~Indexable(g.nodes, v)
          THEN Raise("IndexError")
          ELSE IF Len(g.nodes) >= BypassThreshold
               THEN [st |-> "ok", sorts |-> <<FilterOut(g.nodes, Sentinels)>>]
               ELSE [st |-> "ok",
                     sorts |-> [k \in 1 .. Len(r.sorts) |-> FilteredSort(g.nodes, r.sorts[k])]]

\* all_topological_sorts, lines 58-92.  Outcome [st "ok", sorts] or a raise.
\* The truncation [:20] of the full list equals the first 20 sorts yielded.
all_topological_sorts(g) ==
  IF Len(g.nodes) >= BypassThreshold
  THEN [st |-> "ok", sorts |-> <<FilterOut(g.nodes, Sentinels)>>]
  ELSE LET r == nx_all_topological_sorts(g, TopoCap)
       IN IF r.raised THEN Raise("NetworkXUnfeasible")
          ELSE IF \E v \in Range(GraphNodes(g)) : ~Indexable(g.nodes, v)
               THEN Raise("IndexError")
               ELSE [st |-> "ok",
                     sorts |-> [k \in 1 .. Len(r.sorts) |-> FilteredSort(g.nodes, r.sorts[k])]]

(****************************** t_eval_graph ******************************)
RECURSIVE Closure(_)
Closure(R) ==
  LET step == R \cup UNION { {<<x[1], y[2]>> : y \in {z \in R : z[1] = x[2]}} : x \in R }
  IN IF step = R THEN R ELSE Closure(step)

\* Mutant: only the direct edges, without the multi-hop pairs.
reach_pairs_direct(n_nodes, edges) == {x \in edges : x[1] # x[2]}

\* reach_pairs, lines 386-411: (s, t) for every t in nx.descendants(G, s); a
\* node is never its own descendant.
reach_pairs(n_nodes, edges) == {x \in Closure(edges) : x[1] # x[2]}

\* Mutant: the rewritten edge is stored target first.
mapped_edges_reversed(pred_edges, mapping) ==
  {<<mapping[x[2]], mapping[x[1]]>> :
     x \in {y \in Range(pred_edges) :
              /\ y[1] \in DOMAIN mapping /\ y[2] \in DOMAIN mapping
              /\ mapping[y[1]] # -1 /\ mapping[y[2]] # -1}}

\* Mutant: edges with an unmatched endpoint are rewritten too.
mapped_edges_keep_unmatched(pred_edges, mapping) ==
  {<<mapping[x[1]], mapping[x[2]]>> :
     x \in {y \in Range(pred_edges) : y[1] \in DOMAIN mapping /\ y[2] \in DOMAIN mapping}}

\* Lines 378-383: candidate edges rewritten by the correspondence; an edge is
\* dropped when an endpoint is no key of the mapping or is mapped to -1.
mapped_edges(pred_edges, mapping) ==
  {<<mapping[x[1]], mapping[x[2]]>> :
     x \in {y \in Range(pred_edges) :
              /\ y[1] \in DOMAIN mapping /\ y[2] \in DOMAIN mapping
              /\ mapping[y[1]] # -1 /\ mapping[y[2]] # -1}}

\* Mutant: no special case for two empty closures.
graph_score_no_special(R_pred, R_gt) ==
  LET inter == R_pred \cap R_gt
      precision == IF R_pred # {} THEN Frac(Cardinality(inter), Cardinality(R_pred))
                   ELSE Zero
      recall == IF R_gt # {} THEN Frac(Cardinality(inter), Cardinality(R_gt))
                ELSE Zero
      f1 == IF precision = Zero \/ recall = Zero THEN Zero
            ELSE Harmonic(precision, recall)
  IN Score(precision, recall, f1)

\* Lines 413-434.
graph_score(R_pred, R_gt) ==
  IF R_pred = {} /\ R_gt = {} THEN OneScore
  ELSE LET inter == R_pred \cap R_gt
           precision == IF R_pred # {} THEN Frac(Cardinality(inter), Cardinality(R_pred))
                        ELSE Zero
           recall == IF R_gt # {} THEN Frac(Cardinality(inter), Cardinality(R_gt))
                     ELSE Zero
           f1 == IF precision = Zero \/ recall = Zero THEN Zero
                 ELSE Harmonic(precision, recall)
       IN Score(precision, recall, f1)

\* Mutant: no boundary case for an empty nodes list.
t_eval_graph_no_guard(pred_graph, gt_graph, e, up) ==
  { IF mo.st = "raise" THEN Raised(mo.exc, mo.calls)
    ELSE Returned(graph_score(
             reach_pairs(Len(gt_graph.nodes), mapped_edges(pred_graph.edges, mo.map)),
             reach_pairs(Len(gt_graph.nodes), Range(gt_graph.edges))), mo.calls)
    : mo \in match_node(pred_graph.nodes, gt_graph.nodes, e, up, MatchThreshold) }

\* t_eval_graph, lines 364-434: the set of possible outcomes.
t_eval_graph(pred_graph, gt_graph, e, up) ==
  IF pred_graph.nodes = <<>> \/ gt_graph.nodes = <<>> THEN {Returned(ZeroScore, 0)}
  ELSE { IF mo.st = "raise" THEN Raised(mo.exc, mo.calls)
         ELSE Returned(graph_score(
                  reach_pairs(Len(gt_graph.nodes), mapped_edges(pred_graph.edges, mo.map)),
                  reach_pairs(Len(gt_graph.nodes), Range(gt_graph.edges))), mo.calls)
         : mo \in match_node(pred_graph.nodes, gt_graph.nodes, e, up, MatchThreshold) }

(****************************** t_eval_plan *******************************)
\* Mutant: the LIS loop does not skip candidates mapped to -1.
lis_dp_unchecked(mapping, len_pred) ==
  LET dp[i \in 0 .. (len_pred - 1)] ==
        LET ext == {dp[j] + 1 : j \in {j \in 0 .. (i - 1) : mapping[i] > mapping[j]}}
        IN Max(ext \cup {1})
  IN dp

\* Mutant: the comparison of line 550 is turned round.
lis_dp_decreasing(mapping, len_pred) ==
  LET dp[i \in 0 .. (len_pred - 1)] ==
        LET ext == {dp[j] + 1 : j \in {j \in 0 .. (i - 1) :
                                         /\ mapping[i] # -1 /\ mapping[j] # -1
                                         /\ mapping[i] < mapping[j]}}
        IN Max(ext \cup {1})
  IN dp

\* Lines 540-551: dp[i] after the double loop; dp[j] is final when dp[i] reads it.
lis_dp(mapping, len_pred) ==
  LET dp[i \in 0 .. (len_pred - 1)] ==
        LET ext == {dp[j] + 1 : j \in {j \in 0 .. (i - 1) :
                                         /\ mapping[i] # -1 /\ mapping[j] # -1
                                         /\ mapping[i] > mapping[j]}}
        IN Max(ext \cup {1})
  IN dp

\* Mutant: the order-insensitive branch divides the two counts by the other
\* plan's length.
plan_score_swapped(mapping, len_pred, len_gt, order, calls) ==
  IF order
  THEN IF len_pred = 0 THEN Raised("ValueError", calls)
       ELSE LET dp == lis_dp(mapping, len_pred)
                correct_count == Max({dp[i] : i \in 0 .. (len_pred - 1)})
            IN IF len_gt = 0 THEN Raised("ZeroDivisionError", calls)
               ELSE Returned(Score(Frac(correct_count, len_pred),
                                   Frac(correct_count, len_gt),
                                   Harmonic(Frac(correct_count, len_pred),
                                            Frac(correct_count, len_gt))), calls)
  ELSE LET correct_count == Cardinality({i \in 0 .. (len_pred - 1) : mapping[i] # -1})
           fail_recall == Cardinality({j \in 0 .. (len_gt - 1) :
                                         \A i \in 0 .. (len_pred - 1) : mapping[i] # j})
       IN IF len_gt = 0 \/ len_pred = 0 THEN Raised("ZeroDivisionError", calls)
          ELSE Returned(Score(Frac(correct_count, len_gt),
                              Frac(len_gt - fail_recall, len_pred),
                              IF correct_count = 0 THEN Zero
                              ELSE Harmonic(Frac(correct_count, len_gt),
                                            Frac(len_gt - fail_recall, len_pred))), calls)

\* Lines 537-565 (order) and 566-594 (not order), after match_node returned.
plan_score(mapping, len_pred, len_gt, order, calls) ==
  IF order
  THEN IF len_pred = 0 THEN Raised("ValueError", calls)
       ELSE LET dp == lis_dp(mapping, len_pred)
                correct_count == Max({dp[i] : i \in 0 .. (len_pred - 1)})
            IN IF len_gt = 0 THEN Raised("ZeroDivisionError", calls)
               ELSE Returned(Score(Frac(correct_count, len_pred),
                                   Frac(correct_count, len_gt),
                                   Harmonic(Frac(correct_count, len_pred),
                                            Frac(correct_count, len_gt))), calls)
  ELSE LET correct_count == Cardinality({i \in 0 .. (len_pred - 1) : mapping[i] # -1})
           fail_recall == Cardinality({j \in 0 .. (len_gt - 1) :
                                         \A i \in 0 .. (len_pred - 1) : mapping[i] # j})
       IN IF len_gt = 0 \/ len_pred = 0 THEN Raised("ZeroDivisionError", calls)
          ELSE Returned(Score(Frac(correct_count, len_pred),
                              Frac(len_gt - fail_recall, len_gt),
                              IF correct_count = 0 THEN Zero
                              ELSE Harmonic(Frac(correct_count, len_pred),
                                            Frac(len_gt - fail_recall, len_gt))), calls)

\* t_eval_plan, lines 528-595: the set of possible outcomes.
t_eval_plan(pred_plan, gt_plan, e, up, order) ==
  { IF mo.st = "raise" THEN Raised(mo.exc, mo.calls)
    ELSE plan_score(mo.map, Len(pred_plan), Len(gt_plan), order, mo.calls)
    : mo \in match_node(pred_plan, gt_plan, e, up, MatchThreshold) }

(****************************** t_eval_nodes ******************************)
\* Mutant: max_f1 is replaced by every ordering's result.
keep_best_last(max_f1, result) == result

\* max_f1 after one more ordering's result, lines 669-670: replaced only by a
\* strictly higher f1_score.
keep_best(max_f1, result) ==
  IF FracLess(max_f1.f1_score, result.f1_score) THEN result ELSE max_f1

\* The loop of lines 665-670 from the k-th ordering on.  running is the set of
\* possible (max_f1, calls) so far; an exception of t_eval_plan leaves the loop
\* and the function.
RECURSIVE nodes_loop(_, _, _, _, _, _)
nodes_loop(pred_nodes, trajects, k, running, e, up) ==
  IF k > Len(trajects) \/ running = {} THEN running
  ELSE LET results == t_eval_plan(pred_nodes, trajects[k], e, up, TRUE)
           raised == {Raised(r.exc, s.calls + r.calls) :
                        s \in running, r \in {x \in results : x.st = "raise"}}
           going == {Returned(keep_best(s.score, r.score), s.calls + r.calls) :
                       s \in running, r \in {x \in results : x.st = "ok"}}
       IN raised \cup nodes_loop(pred_nodes, trajects, k + 1, going, e, up)

\* Mutant: no try/except around all_topological_sorts.
t_eval_nodes_uncaught(pred_graph, gt_graph, e, up) ==
  LET all_gold_trajects == all_topological_sorts(gt_graph)
  IN IF all_gold_trajects.st = "raise" THEN {Raised(all_gold_trajects.exc, 0)}
     ELSE nodes_loop(FilterOut(pred_graph.nodes, Sentinels), all_gold_trajects.sorts,
                     1, {Returned(ZeroScore, 0)}, e, up)

\* Mutant: the try/except encloses the whole body, so it also absorbs what
\* t_eval_plan raises.
t_eval_nodes_catch_all(pred_graph, gt_graph, e, up) ==
  LET all_gold_trajects == all_topological_sorts(gt_graph)
  IN IF all_gold_trajects.st = "raise" THEN {Returned(ZeroScore, 0)}
     ELSE {IF o.st = "raise" THEN Returned(ZeroScore, o.calls) ELSE o :
             o \in nodes_loop(FilterOut(pred_graph.nodes, Sentinels),
                              all_gold_trajects.sorts, 1, {Returned(ZeroScore, 0)}, e, up)}

\* t_eval_nodes, lines 643-673: the set of possible outcomes.  The try/except
\* encloses all_topological_sorts alone (lines 649-657).
\* Mutant: the candidate's orderings are enumerated too, inside the same try, so
\* a candidate whose edges cannot be sorted scores zero.
t_eval_nodes_sorts_candidate(pred_graph, gt_graph, e, up) ==
  LET all_gold_trajects == all_topological_sorts(gt_graph)
  IN IF all_gold_trajects.st = "raise" \/ all_topological_sorts(pred_graph).st = "raise"
     THEN {Returned(ZeroScore, 0)}
     ELSE nodes_loop(FilterOut(pred_graph.nodes, Sentinels), all_gold_trajects.sorts,
                     1, {Returned(ZeroScore, 0)}, e, up)

t_eval_nodes(pred_graph, gt_graph, e, up) ==
  LET all_gold_trajects == all_topological_sorts(gt_graph)
  IN IF all_gold_trajects.st = "raise" THEN {Returned(ZeroScore, 0)}
     ELSE nodes_loop(FilterOut(pred_graph.nodes, Sentinels), all_gold_trajects.sorts,
                     1, {Returned(ZeroScore, 0)}, e, up)

(******************************* inputs ***********************************)
Graph(nodes, edges) == [nodes |-> nodes, edges |-> edges]

RECURSIVE SeqsUpTo(_, _)
SeqsUpTo(S, k) ==
  IF k = 0 THEN {<<>>}
  ELSE LET shorter == SeqsUpTo(S, k - 1)
       IN shorter \cup {Append(s, x) : s \in {t \in shorter : Len(t) = k - 1}, x \in S}

\* Lexicographic order on index pairs.
PairLess(x, y) == x[1] < y[1] \/ (x[1] = y[1] /\ x[2] < y[2])

\* Edge lists without repetition, in lexicographic order, of at most k edges.
RECURSIVE EdgeLists(_, _)
EdgeLists(pool, k) ==
  IF k = 0 THEN {<<>>}
  ELSE LET shorter == EdgeLists(pool, k - 1)
       IN shorter \cup
          UNION { {Append(s, x) : x \in {y \in pool : s = <<>> \/ PairLess(s[Len(s)], y)}}
                  : s \in {t \in shorter : Len(t) = k - 1} }

\* A set of index pairs as an edge list in lexicographic order.
RECURSIVE SortedEdges(_)
SortedEdges(S) ==
  IF S = {} THEN <<>>
  ELSE LET x == CHOOSE x \in S : \A y \in S : x = y \/ PairLess(x, y)
       IN <<x>> \o SortedEdges(S \ {x})

Wrap(interior) == <<START>> \o interior \o <<END>>

\* Sentinel-bounded node lists with at most MaxInterior interior labels.
ShortNodes == {Wrap(s) : s \in SeqsUpTo(InteriorLabels, MaxInterior)}

\* Node lists without the sentinel pair, and the single-node list.
PlainNodes == (SeqsUpTo(InteriorLabels, MaxInterior) \ {<<>>}) \cup {<<START>>}

\* The node list of a single-node, sentinel-only graph.
SingleNode == <<START>>

\* One node list long enough for the bypass of all_topological_sorts.
LongNodes ==
  Wrap([i \in 1 .. (BypassThreshold - 2) |-> IF i % 2 = 1 THEN "a" ELSE "b"])

\* A node list with BypassThreshold interior labels.
LongerNodes ==
  Wrap([i \in 1 .. BypassThreshold |-> IF i % 2 = 1 THEN "a" ELSE "b"])

\* Sentinel-bounded node lists, two of them with an interior label that repeats
\* a sentinel's text.
TopoNodes == ShortNodes \cup {Wrap(<<START>>), Wrap(<<"a", END>>)}

\* Every graph on the node list ns with at most MaxEdges in-range edges.
SmallGraphs(ns) ==
  {Graph(ns, es) : es \in EdgeLists(Indices(ns) \X Indices(ns), MaxEdges)}

\* Edge shapes on n nodes: none, the chain 0 -> 1 -> ... -> n-1, the fork
\* START -> each interior -> END, the chain through the interior nodes in reverse
\* listing order, the chain closed into a cycle, a self-loop, and the chain with
\* an edge to the first index outside the nodes list.
Chain(n) == {<<i, i + 1>> : i \in 0 .. (n - 2)}

Fork(n) == IF n <= 2 THEN Chain(n)
           ELSE {<<0, i>> : i \in 1 .. (n - 2)} \cup {<<i, n - 1>> : i \in 1 .. (n - 2)}

Backward(n) == IF n <= 3 THEN Chain(n)
               ELSE {<<0, n - 2>>, <<1, n - 1>>} \cup {<<i + 1, i>> : i \in 1 .. (n - 3)}

Shapes(n) ==
  { {}, Chain(n), Fork(n), Backward(n), Chain(n) \cup {<<n - 1, 0>>},
    {<<n - 1, n - 1>>}, Chain(n) \cup {<<n - 1, n>>} }

ShapedGraphs(ns) == {Graph(ns, SortedEdges(sh)) : sh \in Shapes(Len(ns))}

\* Embedding ports: the vectors of "b", "c" and "d" vary, the others are fixed.
Ports ==
  {[l \in Labels |->
      CASE l = "b" -> x [] l = "c" -> y [] l = "d" -> z
        [] l \in Sentinels -> <<-1, 1>>
        [] OTHER -> <<1, 0>>] : x \in Vectors, y \in Vectors, z \in Vectors}

GraphPorts == {e \in Ports : e["c"] = <<1, 0>> /\ e["d"] = <<1, 0>>}

SelfPorts == {e \in GraphPorts : e["b"] \in {<<1, 0>>, <<0, 1>>}}

\* Ports with graded similarities: four directions about 50 degrees apart, so
\* that neighbouring directions have cosines 0.6643, 0.6507 and 0.6726 and all
\* other pairs a cosine of 0 after clamping. The candidate-only labels have fixed
\* directions; the common label takes the second or third, each reference-only
\* label any of the first three.
GradedVectors == <<<<5, -2>>, <<2, 1>>, <<1, 4>>, <<-2, 3>>>>

GradedPorts ==
  {[l \in Labels |->
      CASE l = "a" -> GradedVectors[2] [] l = "b" -> GradedVectors[3]
        [] l = "e" -> GradedVectors[4]
        [] l = "c" -> x [] l = "d" -> y [] l = "f" -> z
        [] OTHER -> <<-1, 1>>] :
     x \in {GradedVectors[k] : k \in 2 .. 3},
     y \in {GradedVectors[k] : k \in 1 .. 3},
     z \in {GradedVectors[k] : k \in 1 .. 3}}

DownPort == CHOOSE e \in GraphPorts : e["b"] = <<1, 0>>

\* The port answers, or every encode call raises.
InitPort(ports) ==
  \/ portUp = TRUE /\ emb \in ports
  \/ portUp = FALSE /\ emb = DownPort

NoOutcome == [st |-> "none"]

(******************************* actions **********************************)
\* Mutant: the call strips the sentinels from the candidate's node list in place.
Call_in_place(name, outcomes) ==
  /\ pc = "ready"
  /\ \E o \in outcomes : out' = o
  /\ op' = name
  /\ pc' = "done"
  /\ pred' = Graph(FilterOut(pred.nodes, Sentinels), pred.edges)
  /\ UNCHANGED <<gt, emb, portUp>>

Call(name, outcomes) ==
  /\ pc = "ready"
  /\ \E o \in outcomes : out' = o
  /\ op' = name
  /\ pc' = "done"
  /\ UNCHANGED <<pred, gt, emb, portUp>>

evaluate_graph == Call("evaluate_graph", t_eval_graph(pred, gt, emb, portUp))

evaluate_nodes == Call("evaluate_nodes", t_eval_nodes(pred, gt, emb, portUp))

plan_order == Call("t_eval_plan_order",
                   t_eval_plan(FilterOut(pred.nodes, Sentinels),
                               FilterOut(gt.nodes, Sentinels), emb, portUp, TRUE))

plan_unordered == Call("t_eval_plan_unordered",
                       t_eval_plan(FilterOut(pred.nodes, Sentinels),
                                   FilterOut(gt.nodes, Sentinels), emb, portUp, FALSE))

match == Call("match_node", match_node(pred.nodes, gt.nodes, emb, portUp, MatchThreshold))

topo == Call("all_topological_sorts", {all_topological_sorts(gt)})

\* Line 413: R_gt = reach_pairs(n_gt, gt_edges), the closure of the reference.
reach == Call("reach_pairs",
              {[st |-> "ok", pairs |-> reach_pairs(Len(gt.nodes), Range(gt.edges))]})

Next ==
  evaluate_graph \/ evaluate_nodes \/ plan_order \/ plan_unordered \/ match \/ topo \/ reach

InitCommon == pc = "ready" /\ op = "none" /\ out = NoOutcome

\* A candidate and a reference graph, each a shaped graph.
Init ==
  /\ pred \in UNION {ShapedGraphs(ns) : ns \in ShortNodes \cup {LongNodes, SingleNode}}
  /\ gt \in UNION {ShapedGraphs(ns) : ns \in ShortNodes \cup {LongNodes, SingleNode}}
  /\ InitPort(GraphPorts)
  /\ InitCommon

Spec == Init /\ [][Next]_vars

\* One graph compared with itself.
InitSelf ==
  /\ gt \in UNION {SmallGraphs(ns) : ns \in ShortNodes \cup PlainNodes}
            \cup ShapedGraphs(LongNodes)
  /\ pred = gt
  /\ InitPort(SelfPorts)
  /\ InitCommon

SpecSelf == InitSelf /\ [][Next]_vars

\* Two label lists without edges, for the matcher.
InitMatch ==
  /\ pred \in {Graph(ns, <<>>) : ns \in SeqsUpTo(InteriorLabels, MaxInterior)}
  /\ gt \in {Graph(ns, <<>>) : ns \in SeqsUpTo(ReferenceLabels, MaxInterior)}
  /\ InitPort(Ports)
  /\ InitCommon

SpecMatch == InitMatch /\ [][Next]_vars

\* Edge lists the code takes as they come: an edge listed twice, and an endpoint
\* that is a negative index.
UncheckedEdgeGraphs ==
  {Graph(Wrap(<<"a", "b">>), <<<<0, 1>>, <<0, 1>>, <<2, 1>>>>),
   Graph(Wrap(<<"a">>), <<<<0, -1>>>>),
   Graph(Wrap(<<"a">>), <<<<0, -4>>>>)}

\* One graph for the enumerator: every small graph on a short node list, the
\* shaped graphs on the two long node lists, and the unchecked edge lists.
InitTopo ==
  /\ gt \in UNION {SmallGraphs(ns) : ns \in TopoNodes}
            \cup ShapedGraphs(LongNodes) \cup ShapedGraphs(LongerNodes)
            \cup UncheckedEdgeGraphs
  /\ pred = gt
  /\ portUp = TRUE /\ emb = DownPort
  /\ InitCommon

SpecTopo == InitTopo /\ [][Next]_vars

\* A candidate on a short node list and a reference on a short node list or on
\* one of the two long ones, each a shaped graph.
InitEdges ==
  /\ pred \in UNION {ShapedGraphs(ns) : ns \in ShortNodes}
  /\ gt \in UNION {ShapedGraphs(ns) : ns \in ShortNodes \cup {LongNodes, LongerNodes}}
  /\ InitPort(SelfPorts)
  /\ InitCommon

SpecEdges == InitEdges /\ [][Next]_vars

\* Two label lists without edges and without repeated labels, under a port with
\* graded similarities.
InitSim ==
  /\ pred \in {Graph(ns, <<>>) : ns \in {s \in SeqsUpTo(GradedCandidateLabels, MaxInterior + 1) :
                                            \A i, j \in DOMAIN s : i # j => s[i] # s[j]}}
  /\ gt \in {Graph(ns, <<>>) : ns \in {s \in SeqsUpTo(GradedReferenceLabels, MaxInterior + 1) :
                                          \A i, j \in DOMAIN s : i # j => s[i] # s[j]}}
  /\ portUp = TRUE /\ emb \in GradedPorts
  /\ InitCommon

SpecSim == InitSim /\ [][Next]_vars

\* The list s back to front.
Reverse(s) == [i \in 1 .. Len(s) |-> s[Len(s) + 1 - i]]

\* Two plans: a reference label list and, as the candidate, the same list or the
\* list back to front.
InitPlan ==
  /\ gt \in {Graph(ns, <<>>) : ns \in SeqsUpTo(ReferenceLabels, MaxInterior + 1)}
  /\ pred \in {gt, Graph(Reverse(gt.nodes), <<>>)}
  /\ InitPort(GraphPorts)
  /\ InitCommon

SpecPlan == InitPlan /\ [][Next]_vars

(*************************** claim vocabulary *****************************)
Done(name) == pc = "done" /\ op = name

EvalDone == Done("evaluate_graph") \/ Done("evaluate_nodes")

Interior(g) == FilterOut(g.nodes, Sentinels)

HasSentinels(g) ==
  Len(g.nodes) >= 2 /\ g.nodes[1] = START /\ g.nodes[Len(g.nodes)] = END

InRange(g) ==
  \A x \in Range(g.edges) : x[1] \in Indices(g.nodes) /\ x[2] \in Indices(g.nodes)

\* The edge relation contains a directed cycle.
Cyclic(g) == \E x \in Closure(Range(g.edges)) : x[1] = x[2]

WellFormed(g) == HasSentinels(g) /\ InRange(g) /\ ~Cyclic(g)

\* The interior labels in listed order are one of the orderings that
\* all_topological_sorts returns for g.
ListedOrderEnumerated(g) ==
  LET r == all_topological_sorts(g)
  IN r.st = "ok" /\ \E k \in 1 .. Len(r.sorts) : r.sorts[k] = Interior(g)

(********************************* C1 *************************************)
\* C1 (as stated): for every well-formed graph G, evaluate_nodes(G, G) returns
\* f1_score = 1, whatever the listed order of the interior nodes and however
\* many topological orders G has.  Stated here for the graphs with at least one
\* interior node, on which the call returns a score.
C1_IdentityAnyOrder ==
  (Done("evaluate_nodes") /\ pred = gt /\ WellFormed(gt) /\ Interior(gt) # <<>>)
    => (out.st = "ok" /\ out.score.f1_score = One)

\* C1 (amended): for every well-formed graph G whose interior labels, in listed
\* order, are one of the orderings all_topological_sorts(G) returns,
\* evaluate_nodes(G, G) returns precision = recall = f1_score = 1 when G has an
\* interior node; when G has none the call raises ValueError (see C4).
C1_IdentityListedOrder ==
  (Done("evaluate_nodes") /\ pred = gt /\ WellFormed(gt) /\ ListedOrderEnumerated(gt))
    => IF Interior(gt) # <<>>
       THEN out.st = "ok" /\ out.score = OneScore
       ELSE out.st = "raise" /\ out.exc = "ValueError"

\* Witness: a well-formed graph with two interior nodes carrying the same label
\* and several enumerated orderings scores 1 against itself.
C1_Witness ==
  /\ Done("evaluate_nodes") /\ pred = gt /\ WellFormed(gt)
  /\ Len(Interior(gt)) = 2 /\ Interior(gt)[1] = Interior(gt)[2]
  /\ Len(all_topological_sorts(gt).sorts) > 1
  /\ ListedOrderEnumerated(gt)
  /\ out.st = "ok" /\ out.score = OneScore

(********************************* C2 *************************************)
\* C2: for every graph G with a non-empty nodes list and in-range edge
\* endpoints, evaluate_graph(G, G) returns precision = recall = f1_score = 1,
\* for any embedding port and with duplicate node labels.
C2_GraphIdentity ==
  (Done("evaluate_graph") /\ pred = gt /\ gt.nodes # <<>> /\ InRange(gt))
    => (out.st = "ok" /\ out.score = OneScore)

\* Witness: a graph with a duplicate label and a transitive pair (0 reaches 2
\* only through 1), compared with itself while the port is down.
C2_Witness ==
  /\ Done("evaluate_graph") /\ pred = gt /\ InRange(gt) /\ ~portUp
  /\ \E i, j \in Indices(gt.nodes) : i # j /\ At(gt.nodes, i) = At(gt.nodes, j)
  /\ <<0, 2>> \in reach_pairs(Len(gt.nodes), Range(gt.edges))
  /\ <<0, 2>> \notin Range(gt.edges)
  /\ out.st = "ok" /\ out.score = OneScore

(********************************* C3 *************************************)
\* The reference has fewer than 12 interior nodes and yet 12 or more nodes in
\* all, so that line 58 takes the bypass where the comment at lines 55-57 does
\* not (the defect of C11).
BypassedByCount(g) ==
  Len(g.nodes) >= BypassThreshold /\ Len(Interior(g)) < BypassThreshold

\* C3 (as stated): for every reference graph whose edge relation contains a
\* directed cycle, evaluate_nodes returns {0, 0, 0} and does not raise, whatever
\* the candidate and whatever the number of nodes of the reference.
\* Stated here for the candidates with at least one interior node, and leaving
\* aside the references that take the bypass only through the defect of C11, so
\* that what refutes it is a reference with 12 or more interior nodes.
C3_CyclicZeroAnySize ==
  (Done("evaluate_nodes") /\ Cyclic(gt) /\ Interior(pred) # <<>>
     /\ ~BypassedByCount(gt))
    => (out.st = "ok" /\ out.score = ZeroScore)

\* C3 (amended): for every reference graph with fewer than 12 interior nodes
\* whose edge relation contains a directed cycle, evaluate_nodes returns
\* {0, 0, 0} and does not raise, whatever the candidate; except that a reference
\* with 10 or 11 interior nodes takes the bypass (the defect of C11), and the
\* call then returns what it returns for that reference without its edges.
C3_CyclicZeroBelowBypass ==
  (Done("evaluate_nodes") /\ Cyclic(gt) /\ Len(Interior(gt)) < BypassThreshold)
    => IF ~BypassedByCount(gt)
       THEN out.st = "ok" /\ out.score = ZeroScore
       ELSE out \in t_eval_nodes(pred, Graph(gt.nodes, <<>>), emb, portUp)

\* Witness: a reference whose cycle runs through its two interior nodes, a
\* candidate with interior nodes, and the zero score.
C3_Witness ==
  /\ Done("evaluate_nodes") /\ HasSentinels(gt) /\ Len(Interior(gt)) = 2
  /\ <<1, 1>> \in Closure(Range(gt.edges)) /\ <<2, 2>> \in Closure(Range(gt.edges))
  /\ Interior(pred) # <<>>
  /\ out.st = "ok" /\ out.score = ZeroScore

(********************************* C4 *************************************)
\* C4: when the embedding port does not fail, evaluate_graph and evaluate_nodes
\* return a score and never raise for every pair of graphs that each contain the
\* sentinels and only in-range edge endpoints (cyclic or not, with or without
\* interior nodes, any similarities).
C4_NeverRaises ==
  (EvalDone /\ portUp /\ HasSentinels(pred) /\ HasSentinels(gt)
     /\ InRange(pred) /\ InRange(gt))
    => out.st = "ok"

(********************************* C5 *************************************)
\* C5: if an edge of either input graph names a node index outside that graph's
\* nodes list, evaluate_graph and evaluate_nodes raise instead of returning a
\* score.
C5_OutOfRangeRaises ==
  (EvalDone /\ (~InRange(pred) \/ ~InRange(gt))) => out.st = "raise"

(********************************* C6 *************************************)
\* The number of occurrences of label l in the list s.
Count(s, l) == Cardinality({i \in DOMAIN s : s[i] = l})

\* Both lists keep a label after identical texts are paired off, so match_node
\* reaches its similarity pass and calls encode.
NeedsEncode(pred_nodes, gt_nodes) ==
  /\ \E l \in Labels : Count(pred_nodes, l) > Count(gt_nodes, l)
  /\ \E l \in Labels : Count(gt_nodes, l) > Count(pred_nodes, l)

\* all_topological_sorts returns orderings for g: the bypass, or a DAG whose
\* edges stay inside the nodes list.
Enumerable(g) == Len(g.nodes) >= BypassThreshold \/ (InRange(g) /\ ~Cyclic(g))

\* C6: if the embedding port's encode call fails during a similarity pass,
\* evaluate_graph and evaluate_nodes raise that failure to the caller; it is not
\* caught or turned into a score (the try/except of evaluate_nodes does not
\* absorb it).
C6_EmbeddingFailurePropagates ==
  /\ (Done("evaluate_graph") /\ ~portUp /\ NeedsEncode(pred.nodes, gt.nodes))
       => (out.st = "raise" /\ out.exc = "EmbeddingError")
  /\ (Done("evaluate_nodes") /\ ~portUp /\ Enumerable(gt)
        /\ NeedsEncode(Interior(pred), Interior(gt)))
       => (out.st = "raise" /\ out.exc = "EmbeddingError")

\* Witness: evaluate_nodes on an acyclic short reference with differing interior
\* labels while the port is down ends with the port's failure.
C6_Witness ==
  /\ Done("evaluate_nodes") /\ ~portUp /\ Len(gt.nodes) < BypassThreshold
  /\ Enumerable(gt) /\ NeedsEncode(Interior(pred), Interior(gt))
  /\ out.st = "raise" /\ out.exc = "EmbeddingError"

(********************************* C7 *************************************)
InUnit(x) == x[2] > 0 /\ 0 <= x[1] /\ x[1] <= x[2]

\* f = 2*p*r/(p+r), cross-multiplied.
IsHarmonic(f, p, r) ==
  f[1] * (p[1] * r[2] + r[1] * p[2]) = 2 * p[1] * r[1] * f[2]

\* C7: every score returned by evaluate_graph or evaluate_nodes has precision,
\* recall and f1_score in [0, 1], f1_score = 0 whenever precision = 0 or
\* recall = 0, and f1_score = 2*precision*recall/(precision+recall) otherwise.
C7_ScoreShape ==
  (EvalDone /\ out.st = "ok")
    => LET p == out.score.precision
           r == out.score.recall
           f == out.score.f1_score
       IN /\ InUnit(p) /\ InUnit(r) /\ InUnit(f)
          /\ (p[1] = 0 \/ r[1] = 0) => f[1] = 0
          /\ (p[1] # 0 /\ r[1] # 0) => IsHarmonic(f, p, r)

\* Witness: evaluate_nodes returns a score with differing precision and recall,
\* both strictly between 0 and 1, one candidate being unmatched.
C7_Witness ==
  /\ Done("evaluate_nodes") /\ out.st = "ok"
  /\ out.score.precision # out.score.recall
  /\ 0 < out.score.precision[1] /\ out.score.precision[1] < out.score.precision[2]
  /\ 0 < out.score.recall[1] /\ out.score.recall[1] < out.score.recall[2]
  /\ 0 < out.score.f1_score[1] /\ out.score.f1_score[1] < out.score.f1_score[2]

(********************************* C8 *************************************)
\* C8: match_node returns a correspondence whose keys are exactly the candidate
\* indices, whose values are -1 or a valid reference index, and in which no
\* reference index is the value of two candidate indices.
C8_Correspondence ==
  (Done("match_node") /\ out.st = "ok")
    => /\ DOMAIN out.map = Indices(pred.nodes)
       /\ \A i \in DOMAIN out.map : out.map[i] = -1 \/ out.map[i] \in Indices(gt.nodes)
       /\ \A i, j \in DOMAIN out.map :
            (i # j /\ out.map[i] # -1) => out.map[i] # out.map[j]

\* Witness: one candidate bound by identical text and one by similarity, to
\* different reference indices.
C8_Witness ==
  /\ Done("match_node") /\ out.st = "ok" /\ out.calls > 0
  /\ \E i, j \in DOMAIN out.map :
       /\ out.map[i] # -1 /\ At(pred.nodes, i) = At(gt.nodes, out.map[i])
       /\ out.map[j] # -1 /\ At(pred.nodes, j) # At(gt.nodes, out.map[j])

(********************************* C9 *************************************)
\* C9: if the candidate label list equals the reference label list element for
\* element (duplicates allowed), match_node returns the identity mapping and
\* makes no call to the embedding port.
C9_VerbatimIdentity ==
  (Done("match_node") /\ pred.nodes = gt.nodes)
    => /\ out.st = "ok" /\ out.calls = 0
       /\ out.map = [i \in Indices(pred.nodes) |-> i]

\* Witness: equal lists with a repeated label, mapped index to index.
C9_Witness ==
  /\ Done("match_node") /\ pred.nodes = gt.nodes /\ Len(pred.nodes) >= 2
  /\ pred.nodes[1] = pred.nodes[2]
  /\ out.st = "ok" /\ out.calls = 0 /\ out.map = [i \in Indices(pred.nodes) |-> i]

(********************************* C10 ************************************)
Similarity(i, j) == cos_sim(emb[At(pred.nodes, i)], emb[At(gt.nodes, j)])

\* C10: a candidate label whose cosine similarity to every reference label is
\* strictly below the match threshold is mapped to -1.
C10_BelowThresholdUnmatched ==
  (Done("match_node") /\ out.st = "ok")
    => \A i \in Indices(pred.nodes) :
         (\A j \in Indices(gt.nodes) : Similarity(i, j) < MatchThreshold)
           => out.map[i] = -1

\* Witness: the similarity pass binds one candidate and leaves another at -1,
\* whose similarity to every reference label is below the threshold and to one
\* of them positive.
C10_Witness ==
  /\ Done("match_node") /\ out.st = "ok" /\ out.calls > 0 /\ gt.nodes # <<>>
  /\ \E i, k \in Indices(pred.nodes) :
       /\ \A j \in Indices(gt.nodes) : Similarity(i, j) < MatchThreshold
       /\ \E j \in Indices(gt.nodes) : Similarity(i, j) > 0
       /\ out.map[i] = -1
       /\ out.map[k] # -1 /\ At(pred.nodes, k) # At(gt.nodes, out.map[k])

(********************************* C11 ************************************)
\* The interior nodes of g: the labels at positions 1 .. last-1.
InteriorNodes(g) == SubSeq(g.nodes, 2, Len(g.nodes) - 1)

\* No interior position carries a sentinel's text.
PlainInterior(g) == \A i \in DOMAIN InteriorNodes(g) : InteriorNodes(g)[i] \notin Sentinels

\* Node v may follow the nodes S in a linearization of g: its predecessors are
\* all in S and, when the interior labels of the linearization must spell L, an
\* interior v carries the next label of L.
Addable(g, S, v, L, constrained) ==
  /\ \A x \in Range(g.edges) : x[2] = v => x[1] \in S
  /\ (constrained /\ v # 0 /\ v # Len(g.nodes) - 1)
       => LET j == Cardinality(S \ {0, Len(g.nodes) - 1}) + 1
          IN j <= Len(L) /\ L[j] = At(g.nodes, v)

RECURSIVE CapSum(_, _, _)
CapSum(vs, T, prev) ==
  IF vs = {} THEN 0
  ELSE LET v == CHOOSE v \in vs : TRUE
       IN Min({TopoCap + 1, prev[T \ {v}] + CapSum(vs \ {v}, T, prev)})

\* The number of linearizations of g (capped at TopoCap + 1), counted over the
\* sets of already placed nodes, layer by layer; prev maps each set of k nodes
\* that can be placed first to the number of ways to order it.
RECURSIVE LinLayers(_, _, _, _, _)
LinLayers(g, L, constrained, k, prev) ==
  IF k = Len(g.nodes)
  THEN IF Indices(g.nodes) \in DOMAIN prev THEN prev[Indices(g.nodes)] ELSE 0
  ELSE LET dom == {sv[1] \cup {sv[2]} :
                     sv \in {x \in (DOMAIN prev) \X Indices(g.nodes) :
                               x[2] \notin x[1] /\ Addable(g, x[1], x[2], L, constrained)}}
           next == [T \in dom |->
                      CapSum({v \in T : /\ (T \ {v}) \in DOMAIN prev
                                        /\ Addable(g, T \ {v}, v, L, constrained)}, T, prev)]
       IN LinLayers(g, L, constrained, k + 1, next)

\* All linearizations of g, and those whose interior labels spell L.
Linearizations(g) == LinLayers(g, <<>>, FALSE, 0, [S \in {{}} |-> 1])

LinearizationsSpelling(g, L) ==
  IF Len(L) # Len(g.nodes) - 2 THEN 0 ELSE LinLayers(g, L, TRUE, 0, [S \in {{}} |-> 1])

\* The orderings are the interior labels of min(TopoCap, number of
\* linearizations) different linearizations of g.
EmitsLinearizations(g, sorts) ==
  /\ Len(sorts) = Min({TopoCap, Linearizations(g)})
  /\ \A k \in DOMAIN sorts : Count(sorts, sorts[k]) <= LinearizationsSpelling(g, sorts[k])

\* C11: for a well-formed graph with fewer than 12 interior nodes (sentinels not
\* counted), all_topological_sorts returns the interior labels of the
\* topological linearizations of the graph, min(20, number of linearizations)
\* of them.  Stated here for interior labels that are not a sentinel's text.
C11_EnumeratesBelowTwelveInterior ==
  (Done("all_topological_sorts") /\ WellFormed(gt) /\ PlainInterior(gt)
     /\ Len(InteriorNodes(gt)) < 12)
    => (out.st = "ok" /\ EmitsLinearizations(gt, out.sorts))

\* The same statement for graphs with fewer than 12 nodes, sentinels counted.
EnumeratesBelowBypass ==
  (Done("all_topological_sorts") /\ WellFormed(gt) /\ PlainInterior(gt)
     /\ Len(gt.nodes) < BypassThreshold)
    => (out.st = "ok" /\ EmitsLinearizations(gt, out.sorts))

(********************************* C12 ************************************)
\* C12: for a graph with 12 or more interior nodes, all_topological_sorts
\* returns exactly one ordering, the interior nodes in input order, whatever
\* the edges (cyclic and out-of-range edges included).
C12_BypassSingleOrdering ==
  (Done("all_topological_sorts") /\ HasSentinels(gt) /\ Len(InteriorNodes(gt)) >= 12)
    => (out.st = "ok" /\ out.sorts = <<InteriorNodes(gt)>>)

\* Witness: a reference with 12 interior nodes and a cycle, or an edge that
\* leaves the nodes list, yields its listed interior order.
C12_Witness ==
  /\ Done("all_topological_sorts") /\ HasSentinels(gt) /\ Len(InteriorNodes(gt)) >= 12
  /\ Cyclic(gt) /\ gt.edges # <<>> /\ Len(gt.edges) > 1
  /\ out.st = "ok" /\ out.sorts = <<InteriorNodes(gt)>>

(********************************* C13 ************************************)
\* s and t hold the same labels the same number of times.
IsPermutation(s, t) ==
  Len(s) = Len(t) /\ \A l \in Labels : Count(s, l) = Count(t, l)

\* C13: every ordering all_topological_sorts emits is a permutation of exactly
\* the interior nodes nodes[1 .. last-1] of the graph, whatever their labels.
C13_PermutationOfInterior ==
  (Done("all_topological_sorts") /\ HasSentinels(gt) /\ out.st = "ok")
    => \A k \in DOMAIN out.sorts : IsPermutation(out.sorts[k], InteriorNodes(gt))

(********************************* C14 ************************************)
\* The nodes reached from the frontier along edges of E, breadth first.
RECURSIVE Descendants(_, _, _)
Descendants(E, frontier, seen) ==
  LET nxt == {x[2] : x \in {y \in E : y[1] \in frontier}} \ seen
  IN IF nxt = {} THEN seen ELSE Descendants(E, nxt, seen \cup nxt)

\* The reachability closure of E: (s, t) with t # s reachable from s.
Reachability(E) ==
  UNION { {<<s, t>> : t \in Descendants(E, {s}, {}) \ {s}} : s \in {x[1] : x \in E} }

\* The candidate edges rewritten by the correspondence m, without the edges that
\* have an endpoint with no counterpart.
Rewritten(edges, m) ==
  {<<m[x[1]], m[x[2]]>> : x \in {y \in Range(edges) : m[y[1]] # -1 /\ m[y[2]] # -1}}

\* The correspondences match_node can return for the two node lists.
Correspondences ==
  {mo.map : mo \in {x \in match_node(pred.nodes, gt.nodes, emb, portUp, MatchThreshold) :
                      x.st = "ok"}}

\* C14: evaluate_graph returns precision = |C \cap R| / |C| and recall =
\* |C \cap R| / |R|, R the reachability closure of the reference edges and C the
\* closure, over the reference indices, of the candidate edges rewritten by the
\* correspondence without the edges that have an unmatched endpoint (each
\* quotient where its denominator is not zero).
C14_ReachabilityScore ==
  (Done("evaluate_graph") /\ out.st = "ok" /\ pred.nodes # <<>> /\ gt.nodes # <<>>
     /\ InRange(pred))
    => \E m \in Correspondences :
         LET C == Reachability(Rewritten(pred.edges, m))
             R == Reachability(Range(gt.edges))
         IN /\ C \subseteq Indices(gt.nodes) \X Indices(gt.nodes)
            /\ C # {} => out.score.precision = Frac(Cardinality(C \cap R), Cardinality(C))
            /\ R # {} => out.score.recall = Frac(Cardinality(C \cap R), Cardinality(R))

\* Witness: a candidate edge is dropped for an unmatched endpoint, and both
\* precision and recall are strictly between 0 and 1.
C14_Witness ==
  /\ Done("evaluate_graph") /\ out.st = "ok" /\ InRange(pred) /\ InRange(gt)
  /\ \E m \in Correspondences : \E x \in Range(pred.edges) : m[x[1]] = -1 \/ m[x[2]] = -1
  /\ 0 < out.score.precision[1] /\ out.score.precision[1] < out.score.precision[2]
  /\ 0 < out.score.recall[1] /\ out.score.recall[1] < out.score.recall[2]

(********************************* C17 ************************************)
\* C17: if the closure of the rewritten candidate edges and the closure of the
\* reference edges are both empty and both graphs have at least one node,
\* evaluate_graph returns {1, 1, 1}; in particular on two single-node,
\* sentinel-only graphs.
C17_EmptyClosuresScoreOne ==
  (Done("evaluate_graph") /\ out.st = "ok" /\ pred.nodes # <<>> /\ gt.nodes # <<>>
     /\ InRange(pred)
     /\ Reachability(Range(gt.edges)) = {}
     /\ \A m \in Correspondences : Reachability(Rewritten(pred.edges, m)) = {})
    => out.score = OneScore

\* Witness: two single-node, sentinel-only graphs score {1, 1, 1}.
C17_Witness ==
  /\ Done("evaluate_graph") /\ pred.nodes = SingleNode /\ gt.nodes = SingleNode
  /\ Reachability(Range(gt.edges)) = {} /\ InRange(pred)
  /\ \A m \in Correspondences : Reachability(Rewritten(pred.edges, m)) = {}
  /\ out.st = "ok" /\ out.score = OneScore

(********************************* C15 ************************************)
\* The correspondences match_node can return for the two plans t_eval_plan is
\* called with.
PlanCorrespondences ==
  {mo.map : mo \in {x \in match_node(Interior(pred), Interior(gt), emb, portUp,
                                      MatchThreshold) : x.st = "ok"}}

\* The length of the longest strictly increasing subsequence of the reference
\* indices of the matched candidates; 0 when no candidate is matched.
LongestIncreasing(m) ==
  Max({Cardinality(I) :
         I \in {J \in SUBSET {i \in DOMAIN m : m[i] # -1} :
                  \A i, j \in J : i < j => m[i] < m[j]}})

\* C15: order-sensitive t_eval_plan returns precision = correct/len(candidate)
\* and recall = correct/len(reference), correct being the length of the longest
\* strictly increasing subsequence of the reference indices of the matched
\* candidates (0 when no candidate is matched).
C15_OrderedScoreIsLIS ==
  (Done("t_eval_plan_order") /\ out.st = "ok")
    => \E m \in PlanCorrespondences :
         /\ out.score.precision = Frac(LongestIncreasing(m), Len(Interior(pred)))
         /\ out.score.recall = Frac(LongestIncreasing(m), Len(Interior(gt)))

\* The same statement for the calls in which some candidate is matched.
OrderedScoreIsLISWhenMatched ==
  (Done("t_eval_plan_order") /\ out.st = "ok")
    => \E m \in PlanCorrespondences :
         \/ \A i \in DOMAIN m : m[i] = -1
         \/ /\ out.score.precision = Frac(LongestIncreasing(m), Len(Interior(pred)))
            /\ out.score.recall = Frac(LongestIncreasing(m), Len(Interior(gt)))

(********************************* C16 ************************************)
\* The scores order-sensitive t_eval_plan can return for the candidate's
\* interior labels against the k-th ordering.
PlanScores(sorts, k) ==
  {r.score : r \in {x \in t_eval_plan(Interior(pred), sorts[k], emb, portUp, TRUE) :
                       x.st = "ok"}}

\* C16: evaluate_nodes returns the t_eval_plan result with the maximum f1_score
\* over the orderings enumerated for the reference, each aligned order-
\* sensitively against the candidate's sentinel-stripped node list; among
\* orderings that reach the maximum, the result of the first.
C16_MaxOverOrderings ==
  (Done("evaluate_nodes") /\ out.st = "ok" /\ all_topological_sorts(gt).st = "ok")
    => LET sorts == all_topological_sorts(gt).sorts
       IN \E k \in DOMAIN sorts :
            /\ out.score \in PlanScores(sorts, k)
            /\ \A j \in DOMAIN sorts :
                 \E s \in PlanScores(sorts, j) :
                   IF j < k THEN FracLess(s.f1_score, out.score.f1_score)
                   ELSE FracLeq(s.f1_score, out.score.f1_score)

\* Witness: the returned result is that of a later ordering, the first
\* ordering and an ordering after it scoring lower.
C16_Witness ==
  /\ Done("evaluate_nodes") /\ out.st = "ok" /\ all_topological_sorts(gt).st = "ok"
  /\ LET sorts == all_topological_sorts(gt).sorts
     IN /\ Len(sorts) >= 3
        /\ \A s \in PlanScores(sorts, 1) : FracLess(s.f1_score, out.score.f1_score)
        /\ \E k \in DOMAIN sorts :
             /\ out.score \in PlanScores(sorts, k)
             /\ \E j \in DOMAIN sorts :
                  j > k /\ \A s \in PlanScores(sorts, j) :
                             FracLess(s.f1_score, out.score.f1_score)

(********************************* C18 ************************************)
\* C18: if the candidate or the reference graph has an empty nodes list,
\* evaluate_graph returns {0, 0, 0} without calling the matcher or the port.
C18_EmptyNodesScoreZero ==
  (Done("evaluate_graph") /\ (pred.nodes = <<>> \/ gt.nodes = <<>>))
    => (out.st = "ok" /\ out.score = ZeroScore /\ out.calls = 0)

\* Witness: an empty candidate against a reference with labels, the port down.
C18_Witness ==
  /\ Done("evaluate_graph") /\ pred.nodes = <<>> /\ Len(gt.nodes) >= 2 /\ ~portUp
  /\ out.st = "ok" /\ out.score = ZeroScore /\ out.calls = 0

(********************************* C19 ************************************)
Distinct(s) == \A i, j \in DOMAIN s : i # j => s[i] # s[j]

\* C19 (as stated): if the candidate sequence is the exact reverse of the
\* reference sequence (n >= 1 labels), order-sensitive t_eval_plan returns
\* precision = recall = 1/n.
C19_ReverseScoresOneOverN ==
  (Done("t_eval_plan_order") /\ Interior(pred) = Reverse(Interior(gt))
     /\ Len(Interior(gt)) >= 1)
    => /\ out.st = "ok"
       /\ out.score.precision = Frac(1, Len(Interior(gt)))
       /\ out.score.recall = Frac(1, Len(Interior(gt)))

\* C19 (amended): if the candidate sequence is the exact reverse of a reference
\* sequence of n >= 1 pairwise different labels, order-sensitive t_eval_plan
\* returns precision = recall = 1/n.
C19_ReverseOfDistinctScoresOneOverN ==
  (Done("t_eval_plan_order") /\ Interior(pred) = Reverse(Interior(gt))
     /\ Len(Interior(gt)) >= 1 /\ Distinct(Interior(gt)))
    => /\ out.st = "ok"
       /\ out.score.precision = Frac(1, Len(Interior(gt)))
       /\ out.score.recall = Frac(1, Len(Interior(gt)))

\* Witness: three different labels, reversed, score 1/3.
C19_Witness ==
  /\ Done("t_eval_plan_order") /\ Interior(pred) = Reverse(Interior(gt))
  /\ Len(Interior(gt)) >= 3 /\ Distinct(Interior(gt))
  /\ out.st = "ok" /\ out.score.precision = Frac(1, Len(Interior(gt)))
  /\ out.score.recall = Frac(1, Len(Interior(gt)))

(********************************* C20 ************************************)
\* C20: order-insensitive t_eval_plan returns precision = (candidates with a
\* counterpart)/len(candidate), recall = (different reference indices that are
\* a counterpart)/len(reference), and f1_score = 0 when no candidate is matched,
\* otherwise the harmonic mean of precision and recall.
C20_UnorderedScore ==
  (Done("t_eval_plan_unordered") /\ out.st = "ok")
    => \E m \in PlanCorrespondences :
         LET matched == {i \in DOMAIN m : m[i] # -1}
             hit == {m[i] : i \in matched}
         IN /\ out.score.precision = Frac(Cardinality(matched), Len(Interior(pred)))
            /\ out.score.recall = Frac(Cardinality(hit), Len(Interior(gt)))
            /\ IF matched = {} THEN out.score.f1_score = Zero
               ELSE IsHarmonic(out.score.f1_score, out.score.precision, out.score.recall)

\* Witness: one of two candidates is matched, by similarity, against a single
\* reference label.
C20_Witness ==
  /\ Done("t_eval_plan_unordered") /\ out.st = "ok" /\ out.calls > 0
  /\ Len(Interior(pred)) = 2 /\ Len(Interior(gt)) = 1
  /\ out.score.precision = Frac(1, 2) /\ out.score.recall = One
  /\ out.score.f1_score = Frac(2, 3)

(********************************* C21 ************************************)
\* C21: for a linear chain START -> s1 -> ... -> sn -> END, the closure that
\* reach_pairs computes holds exactly C(n+2, 2) ordered pairs, one for every two
\* positions i < j of the chain, and no pair (a, a).
C21_ChainClosureSize ==
  (Done("reach_pairs") /\ HasSentinels(gt) /\ Range(gt.edges) = Chain(Len(gt.nodes)))
    => LET n == Len(gt.nodes) - 2
       IN /\ Cardinality(out.pairs) * 2 = (n + 2) * (n + 1)
          /\ out.pairs = {<<i, j>> \in (0 .. n + 1) \X (0 .. n + 1) : i < j}
          /\ \A x \in out.pairs : x[1] # x[2]

\* A chain with at least two interior steps, so that multi-hop pairs occur.
C21_Witness ==
  /\ Done("reach_pairs") /\ HasSentinels(gt) /\ Len(gt.nodes) >= 4
  /\ Range(gt.edges) = Chain(Len(gt.nodes))
  /\ <<0, Len(gt.nodes) - 1>> \in out.pairs

(********************************* C23 ************************************)
\* C23: every operation leaves its arguments as they were: the candidate and
\* the reference graph (node lists and edge lists) and the embedding port are
\* the same after the call as before it; the only thing a call produces is its
\* result.
C23_InputsUnchanged ==
  [][pred' = pred /\ gt' = gt /\ emb' = emb /\ portUp' = portUp]_vars

\* A call has returned a result for a candidate that carries sentinels and
\* interior labels, edges included.
C23_Witness ==
  /\ EvalDone /\ out.st = "ok"
  /\ HasSentinels(pred) /\ Len(pred.nodes) >= 3 /\ Len(pred.edges) >= 2
  /\ HasSentinels(gt) /\ Len(gt.edges) >= 2

(********************************* C24 ************************************)
\* The indices of the list s that carry label l.
Occurrences(s, l) == {i \in Indices(s) : At(s, i) = l}

\* The number of occurrences of the label at index i of s up to and including i.
Rank(s, i) == Cardinality({k \in Occurrences(s, At(s, i)) : k <= i})

\* The index of the k-th occurrence of label l in s.
KthOccurrence(s, l, k) ==
  CHOOSE j \in Occurrences(s, l) : Cardinality({h \in Occurrences(s, l) : h <= j}) = k

\* C24: in the mapping match_node returns, the k-th occurrence of a label in the
\* candidate list is bound to the k-th occurrence of the identical label in the
\* reference list whenever the reference has that many; the similarity pass
\* neither changes nor removes such a binding.
C24_KthOccurrence ==
  (Done("match_node") /\ out.st = "ok")
    => \A i \in Indices(pred.nodes) :
         LET l == At(pred.nodes, i)
             k == Rank(pred.nodes, i)
         IN Cardinality(Occurrences(gt.nodes, l)) >= k
              => out.map[i] = KthOccurrence(gt.nodes, l, k)

\* Witness: the similarity pass has run and bound a candidate; another candidate
\* is bound to the reference occurrence of its own rank, at a different index.
C24_Witness ==
  /\ Done("match_node") /\ out.st = "ok" /\ out.calls > 0
  /\ \E i, j \in Indices(pred.nodes) :
       /\ Cardinality(Occurrences(gt.nodes, At(pred.nodes, i))) >= Rank(pred.nodes, i)
       /\ out.map[i] = KthOccurrence(gt.nodes, At(pred.nodes, i), Rank(pred.nodes, i))
       /\ out.map[i] # i
       /\ out.map[j] # -1 /\ At(pred.nodes, j) # At(gt.nodes, out.map[j])

(********************************* C25 ************************************)
\* The candidate indices the exact pass leaves over: the occurrences of a label
\* beyond the number of its occurrences in the reference; and likewise the
\* reference indices left over.
LeftoverCandidates == {i \in Indices(pred.nodes) :
                         Rank(pred.nodes, i) > Count(gt.nodes, At(pred.nodes, i))}

LeftoverReferences == {j \in Indices(gt.nodes) :
                         Rank(gt.nodes, j) > Count(pred.nodes, At(gt.nodes, j))}

\* The pairs the similarity pass has bound.
SimilarityPairs == {<<i, out.map[i]>> : i \in {k \in LeftoverCandidates : out.map[k] # -1}}

PairWeight(i, j) == Similarity(i, j) - PositionPenalty * Abs(i - j)

\* The largest total weight of a matching between the candidates cs and the
\* references free, over the pairs whose similarity reaches the threshold.
RECURSIVE BestWeight(_, _)
BestWeight(cs, free) ==
  IF cs = {} THEN 0
  ELSE LET i == CHOOSE i \in cs : TRUE
       IN Max({BestWeight(cs \ {i}, free)} \cup
              {PairWeight(i, j) + BestWeight(cs \ {i}, free \ {j}) :
                 j \in {j \in free : Similarity(i, j) >= MatchThreshold}})

RECURSIVE TotalWeight(_)
TotalWeight(pairs) ==
  IF pairs = {} THEN 0
  ELSE LET x == CHOOSE x \in pairs : TRUE
       IN PairWeight(x[1], x[2]) + TotalWeight(pairs \ {x})

\* C25: the pairs bound by the similarity pass are a matching of the bipartite
\* graph whose edges are the leftover (candidate, reference) pairs with clamped
\* cosine at least the threshold, and their total weight, similarity minus
\* 1e-4 * |i - j| per pair, is the largest any matching of that graph has.
C25_MaximumWeightMatching ==
  (Done("match_node") /\ out.st = "ok")
    => /\ \A x \in SimilarityPairs :
            x[2] \in LeftoverReferences /\ Similarity(x[1], x[2]) >= MatchThreshold
       /\ \A x, y \in SimilarityPairs : x # y => x[2] # y[2]
       /\ TotalWeight(SimilarityPairs) = BestWeight(LeftoverCandidates, LeftoverReferences)

\* Witness: two pairs are bound by similarity, and swapping their references would
\* give another matching of the same graph, of smaller weight.
C25_Witness ==
  /\ Done("match_node") /\ out.st = "ok" /\ out.calls > 0
  /\ \E x, y \in SimilarityPairs :
       /\ x # y
       /\ Similarity(x[1], y[2]) >= MatchThreshold
       /\ Similarity(y[1], x[2]) >= MatchThreshold
       /\ PairWeight(x[1], y[2]) + PairWeight(y[1], x[2])
            < PairWeight(x[1], x[2]) + PairWeight(y[1], y[2])

(********************************* C26 ************************************)
\* The exact pass leaves the same index positions on both sides, and each
\* leftover candidate label reaches the threshold with the leftover reference
\* label at its own index.
LeftoversAligned ==
  /\ LeftoverCandidates = LeftoverReferences
  /\ \A i \in LeftoverCandidates : Similarity(i, i) >= MatchThreshold

\* C26 (as stated): when the leftovers are aligned in this way, the similarity
\* pass binds every leftover candidate, for any number of leftover labels and any
\* values of the other similarities.
C26_AlignedLeftoversAllBound ==
  (Done("match_node") /\ out.st = "ok" /\ LeftoversAligned)
    => \A i \in LeftoverCandidates : out.map[i] # -1

\* C26 (amended): when the leftovers are aligned in this way and there are at
\* most two of them, the similarity pass binds every leftover candidate, for any
\* values of the other similarities.
C26_AlignedLeftoverPairAllBound ==
  (Done("match_node") /\ out.st = "ok" /\ LeftoversAligned
     /\ Cardinality(LeftoverCandidates) <= 2)
    => \A i \in LeftoverCandidates : out.map[i] # -1

\* Witness: two aligned leftovers, both bound, one of them to the other index
\* because the crossed pairing is heavier.
C26_Witness ==
  /\ Done("match_node") /\ out.st = "ok" /\ out.calls > 0 /\ LeftoversAligned
  /\ Cardinality(LeftoverCandidates) = 2
  /\ \A i \in LeftoverCandidates : out.map[i] # -1
  /\ \E i \in LeftoverCandidates : out.map[i] # i

(********************************* C27 ************************************)
\* The candidate is the reference with one edge (u, v) replaced by the path
\* (u, x), (x, v) through a new node x, listed at candidate index x, that no
\* correspondence binds to a reference node.
AddedStep(x) ==
  LET down(i) == IF i < x THEN i ELSE i - 1
      up(i) == IF i < x THEN i ELSE i + 1
      kept == {e \in Range(pred.edges) : e[1] # x /\ e[2] # x}
  IN /\ Len(pred.nodes) = Len(gt.nodes) + 1
     /\ InRange(pred) /\ InRange(gt)
     /\ \A i \in Indices(pred.nodes) \ {x} : At(pred.nodes, i) = At(gt.nodes, down(i))
     /\ \E e \in Range(gt.edges) :
          /\ Range(pred.edges) \ kept = {<<up(e[1]), x>>, <<x, up(e[2])>>}
          /\ {<<down(k[1]), down(k[2])>> : k \in kept} = Range(gt.edges) \ {e}
     /\ \A m \in Correspondences : m[x] = -1

\* C27: evaluate_graph tolerates an added intermediate step: for a candidate
\* that is the reference with one edge replaced by a two-edge path through a new,
\* unmatched node, it returns precision = recall = f1_score = 1.
C27_AddedStepTolerated ==
  (Done("evaluate_graph") /\ out.st = "ok"
     /\ \E x \in Indices(pred.nodes) : AddedStep(x))
    => out.score = OneScore

(********************************* C28 ************************************)
\* The reference indices that no candidate is bound to.
UnusedReferences == Indices(gt.nodes) \ {out.map[i] : i \in Indices(pred.nodes)}

\* C28: the correspondence match_node returns with the default threshold is
\* maximal: no candidate mapped to -1 and reference index bound to no candidate
\* carry identical labels or labels whose clamped cosine reaches the threshold.
C28_MaximalCorrespondence ==
  (Done("match_node") /\ out.st = "ok")
    => \A i \in Indices(pred.nodes) : \A j \in UnusedReferences :
         out.map[i] = -1
           => /\ At(pred.nodes, i) # At(gt.nodes, j)
              /\ Similarity(i, j) < MatchThreshold

\* Witness: after a similarity pass that bound a pair, a candidate is left at -1
\* and a reference is left unused, and that candidate reaches the threshold with
\* a reference that went to another candidate.
C28_Witness ==
  /\ Done("match_node") /\ out.st = "ok" /\ out.calls > 0
  /\ UnusedReferences # {}
  /\ \E i, k \in Indices(pred.nodes) :
       /\ out.map[i] = -1 /\ out.map[k] # -1
       /\ Similarity(i, out.map[k]) >= MatchThreshold

(********************************* C29 ************************************)
\* C29: the result of evaluate_nodes does not depend on the candidate's edges:
\* whatever they are (cyclic and out-of-range edges included), the call returns
\* what it returns for the same candidate node list without any edge.
C29_CandidateEdgesIgnored ==
  Done("evaluate_nodes")
    => out \in t_eval_nodes(Graph(pred.nodes, <<>>), gt, emb, portUp)

\* Witness: a candidate with a cyclic or out-of-range edge list gets a score
\* above zero.
C29_Witness ==
  /\ Done("evaluate_nodes") /\ out.st = "ok"
  /\ Cyclic(pred) \/ ~InRange(pred)
  /\ out.score.f1_score[1] > 0

(********************************* C30 ************************************)
RECURSIVE Factorial(_)
Factorial(n) == IF n <= 1 THEN 1 ELSE n * Factorial(n - 1)

\* The number of orders of the interior node indices of g whose labels spell s:
\* the orders of equally labelled indices among themselves.
RECURSIVE Spellings(_, _)
Spellings(s, ls) ==
  IF ls = {} THEN 1
  ELSE LET l == CHOOSE l \in ls : TRUE
       IN Factorial(Count(s, l)) * Spellings(s, ls \ {l})

InteriorOrdersSpelling(g, s) ==
  IF IsPermutation(s, InteriorNodes(g)) THEN Spellings(s, Range(s)) ELSE 0

\* The number of emitted orderings equal to s.
Emitted(s) == Cardinality({k \in DOMAIN out.sorts : out.sorts[k] = s})

\* C30: when all_topological_sorts enumerates, the emitted orderings come from
\* pairwise distinct orders of the interior node indices, so no label sequence is
\* emitted more often than there are orders of the interior indices that spell
\* it; this also when a sentinel is not connected to the interior nodes.
C30_DistinctInteriorOrders ==
  (Done("all_topological_sorts") /\ out.st = "ok" /\ Len(gt.nodes) < BypassThreshold
     /\ HasSentinels(gt) /\ PlainInterior(gt))
    => \A k \in DOMAIN out.sorts :
         Emitted(out.sorts[k]) <= InteriorOrdersSpelling(gt, out.sorts[k])

====
